---- MODULE Spec2Model ----
(***************************************************************************)
(* The python sweeper plugin (hydra_plugins/python_sweeper_plugin): the    *)
(* override algebra of PythonSweeper._make_batches, the chunker            *)
(* _chunk_batches and the control flow of PythonSweeper.sweep.             *)
(*                                                                         *)
(* Strings the code inspects character by character (keys, rendered        *)
(* "key=value" items) are sequences of one-character strings.  A value is  *)
(* a tagged record, [str |-> s] for a Python str and [int |-> n] for a     *)
(* Python int, so that f"{key}={value}" is a real conversion.              *)
(***************************************************************************)
EXTENDS Integers, Sequences, FiniteSets, TLC

\* ------------------------------------------------------------------ bounds

\* Longest list of choices of one sweep override.
MaxChoices == 2

\* Largest positive max_batch_size tried.
MaxBatch == 3

\* ----------------------------------------------------------------- helpers

Min(a, b) == IF a < b THEN a ELSE b

RECURSIVE Flatten(_)
\* Concatenation of a sequence of sequences, in order.
Flatten(ss) ==
  IF ss = <<>> THEN <<>> ELSE Head(ss) \o Flatten(Tail(ss))

Front(s) == SubSeq(s, 1, Len(s) - 1)

Last(s) == s[Len(s)]

Range(s) == {s[i] : i \in 1..Len(s)}

\* Sequences over S of length lo..hi.
SeqsOf(S, lo, hi) == UNION {[1..n -> S] : n \in lo..hi}

\* -------------------------------------------------------- Python built-ins

RECURSIVE lstrip_plus(_)
\* str.lstrip('+'): every leading '+' is removed.
lstrip_plus(s) ==
  IF s # <<>> /\ Head(s) = "+" THEN lstrip_plus(Tail(s)) ELSE s

DigitChars == <<"0", "1", "2", "3", "4", "5", "6", "7", "8", "9">>

RECURSIVE int_str(_)
\* str(n) of a non-negative int: its decimal digits.
int_str(n) ==
  IF n < 10 THEN <<DigitChars[n + 1]>>
  ELSE int_str(n \div 10) \o <<DigitChars[(n % 10) + 1]>>

\* format(value, ''), as an f-string applies it to a str or an int.
format_value(v) == IF "int" \in DOMAIN v THEN int_str(v.int) ELSE v.str

RECURSIVE product_last_slowest(_)
\* A product whose loops are nested the other way round: the last pool
\* varies slowest.
product_last_slowest(pools) ==
  IF pools = <<>> THEN << <<>> >>
  ELSE LET result == product_last_slowest(Front(pools))
           pool   == Last(pools)
       IN Flatten([y \in 1..Len(pool) |->
                     [x \in 1..Len(result) |-> Append(result[x], pool[y])]])

RECURSIVE product(_)
\* itertools.product(*pools): result = [[]]; for pool in pools:
\* result = [x + [y] for x in result for y in pool].
product(pools) ==
  IF pools = <<>> THEN << <<>> >>
  ELSE LET result == product(Front(pools))
           pool   == Last(pools)
       IN Flatten([x \in 1..Len(result) |->
                     [y \in 1..Len(pool) |-> Append(result[x], pool[y])]])

RECURSIVE fromkeys_from(_, _)
\* dict.fromkeys(items) continued from the keys already inserted: a key is
\* inserted where it is first seen and never moves.
fromkeys_from(keys, items) ==
  IF items = <<>> THEN keys
  ELSE fromkeys_from(IF Head(items) \in Range(keys) THEN keys
                     ELSE Append(keys, Head(items)),
                     Tail(items))

RECURSIVE uniq_adjacent(_)
\* A deduplication that only collapses runs of equal neighbours.
uniq_adjacent(items) ==
  IF Len(items) < 2 THEN items
  ELSE IF items[1] = items[2] THEN uniq_adjacent(Tail(items))
       ELSE <<items[1]>> \o uniq_adjacent(Tail(items))

\* list(dict.fromkeys(items)).
dict_fromkeys(items) == fromkeys_from(<<>>, items)

\* ------------------------------------------------------------- input data

\* Keys and value strings as the override parser hands them over.
foo == <<"f", "o", "o">>

plus_bar == <<"+", "b", "a", "r">>

plus_bizz == <<"+", "b", "i", "z", "z">>

CliValues == {<<"1">>, <<"2">>}

\* The key of every override on the command line, in command-line order.
CliKeyLists == {<<>>, <<foo>>, <<foo, plus_bar>>}

\* One parsed override without its key: a sweep over a list of choices
\* (is_sweep_override() is true) or a single value.
OverrideBodies ==
  {[sweep |-> TRUE, choices |-> c] : c \in SeqsOf(CliValues, 0, MaxChoices)}
    \cup {[sweep |-> FALSE, value |-> v] : v \in CliValues}

WithKey(k, body) ==
  IF body.sweep THEN [key |-> k, sweep |-> TRUE, choices |-> body.choices]
  ELSE [key |-> k, sweep |-> FALSE, value |-> body.value]

\* What parser.parse_overrides(arguments) may return.
ParsedOverrides ==
  UNION {{[i \in 1..Len(keys) |-> WithKey(keys[i], f[i])] :
            f \in [1..Len(keys) -> OverrideBodies]} : keys \in CliKeyLists}

\* tests/configs/overrides.py
configure_cli_overrides_python ==
  << << <<foo, [int |-> 33]>>, <<plus_bar, [int |-> 0]>> >>,
     << <<foo, [int |-> 33]>>, <<plus_bar, [int |-> 1]>> >> >>

configure_2 ==
  << << <<plus_bizz, [int |-> 1]>> >>,
     << <<plus_bizz, [int |-> 11]>> >> >>

\* The callables get_method can resolve, by dotted path.
Methods ==
  [p \in {"configs.overrides.configure_cli_overrides_python",
          "configs.overrides.configure_2"} |->
     IF p = "configs.overrides.configure_2" THEN configure_2
     ELSE configure_cli_overrides_python]

\* Values of SweeperConfig.entrypoint: None, a dotted path (one of them
\* resolving to nothing), or a list of dotted paths.
Entrypoints ==
  {[kind |-> "none"],
   [kind |-> "str", path |-> "configs.overrides.configure_cli_overrides_python"],
   [kind |-> "str", path |-> "configs.overrides.configure_2"],
   [kind |-> "str", path |-> "configs.overrides.missing"],
   [kind |-> "list",
    paths |-> <<"configs.overrides.configure_cli_overrides_python",
                "configs.overrides.configure_2">>]}

\* Values of SweeperConfig.max_batch_size: None or an int.
None == [none |-> TRUE]

Int_(n) == [none |-> FALSE, int |-> n]

MaxBatchSizes == {None} \cup {Int_(n) : n \in (0 - 2)..MaxBatch}

\* A call that returned v, and a call that raised.
Ok(v) == [raised |-> FALSE, value |-> v]

Raise == [raised |-> TRUE]

\* ------------------------------------------------------------------- utils

\* utils.merge_overrides(*overrides): one concatenated override set per
\* tuple of the cartesian product.
merge_overrides(overrides) ==
  LET configs == product(overrides)
  IN [c \in 1..Len(configs) |-> Flatten(configs[c])]

\* ----------------------------------------------------------- PythonSweeper

\* The (key, value) choices of one override (python_sweeper.py:88-96).
override_choices(override) ==
  IF override.sweep
  THEN [v \in 1..Len(override.choices) |->
          <<override.key, [str |-> override.choices[v]]>>]
  ELSE << <<override.key, [str |-> override.value]>> >>

make_cli_overrides(cli_overrides) ==
  product([o \in 1..Len(cli_overrides) |-> override_choices(cli_overrides[o])])

\* hydra.utils.get_method, then the call of the method: a path that is no
\* str or resolves to nothing raises.
make_python_overrides(entrypoint) ==
  IF entrypoint.kind = "none" THEN Ok(<< <<>> >>)
  ELSE IF entrypoint.kind = "str" /\ entrypoint.path \in DOMAIN Methods
       THEN Ok(Methods[entrypoint.path])
       ELSE Raise

merge_override_pairs(cli_overrides, python_overrides) ==
  LET cli_override_keys ==
        {lstrip_plus(cli_overrides[t][1]) : t \in 1..Len(cli_overrides)}
  IN cli_overrides
       \o SelectSeq(python_overrides, LAMBDA tpl : tpl[1] \notin cli_override_keys)

\* f"{key}={value}" for every pair of a merged combination.
render(batch) ==
  [t \in 1..Len(batch) |-> batch[t][1] \o <<"=">> \o format_value(batch[t][2])]

\* _make_batches with the entrypoint's combinations at hand.
make_batches(cli_overrides, python_overrides, remove_duplicates) ==
  LET pairs    == product(<<make_cli_overrides(cli_overrides), python_overrides>>)
      merged   == [p \in 1..Len(pairs) |->
                     merge_override_pairs(pairs[p][1], pairs[p][2])]
      rendered == [b \in 1..Len(merged) |-> render(merged[b])]
  IN IF remove_duplicates THEN dict_fromkeys(rendered) ELSE rendered

RECURSIVE chunked_from(_, _)
\* more_itertools.chunked for n >= 0: iter(partial(take, n, it), []), which
\* takes n items at a time and stops at the first empty take.
chunked_from(items, n) ==
  LET taken == SubSeq(items, 1, Min(n, Len(items)))
  IN IF taken = <<>> THEN <<>>
     ELSE <<taken>> \o chunked_from(SubSeq(items, Len(taken) + 1, Len(items)), n)

RECURSIVE chunked_full_only(_, _)
\* A chunker that drops a short last chunk.
chunked_full_only(items, n) ==
  IF n < 0 THEN Raise
  ELSE IF n = 0 \/ Len(items) < n THEN Ok(<<>>)
  ELSE Ok(<<SubSeq(items, 1, n)>>
            \o chunked_full_only(SubSeq(items, n + 1, Len(items)), n).value)

\* list(more_itertools.chunked(items, n)): islice rejects a negative n.
chunked(items, n) ==
  IF n < 0 THEN Raise ELSE Ok(chunked_from(items, n))

\* A chunker whose unbounded case always returns the whole list as one chunk.
chunk_batches_whole(batches, max_batch_size) ==
  IF max_batch_size.none \/ max_batch_size.int = 0 - 1 THEN Ok(<<batches>>)
  ELSE chunked(batches, max_batch_size.int)

\* _chunk_batches, made a list (python_sweeper.py:147).
chunk_batches(batches, max_batch_size) ==
  LET n == IF max_batch_size.none \/ max_batch_size.int = 0 - 1
           THEN Len(batches) ELSE max_batch_size.int
  IN chunked(batches, n)

\* What the launcher returns for one chunk: one result per job, numbered
\* from initial_job_idx.
launch_results(batch, idx) ==
  [j \in 1..Len(batch) |-> [overrides |-> batch[j], job_idx |-> idx + j - 1]]

\* An index that counts chunks instead of jobs.
next_job_idx_chunks(idx, batch) == idx + 1

\* initial_job_idx += len(batch)
next_job_idx(idx, batch) == idx + Len(batch)

\* sweep() has not returned.
NoResult == [returned |-> FALSE]

\* ------------------------------------------------------------------- state

VARIABLES
  max_batch_size,     \* self.max_batch_size
  entrypoint,         \* self.entrypoint
  remove_duplicates,  \* self.remove_duplicates
  pc,                 \* where sweep() stands
  parsed,             \* sweep: parsed
  batches,            \* sweep: batches
  chunked_batches,    \* sweep: chunked_batches
  next_chunk,         \* position of the for loop in chunked_batches
  initial_job_idx,    \* sweep: initial_job_idx
  returns,            \* sweep: returns
  launches,           \* the calls self.launcher.launch has received
  exception,          \* where sweep() raised, "" while it has not
  result              \* what sweep() returned

vars ==
  <<max_batch_size, entrypoint, remove_duplicates, pc, parsed, batches,
    chunked_batches, next_chunk, initial_job_idx, returns, launches,
    exception, result>>

config == <<max_batch_size, entrypoint, remove_duplicates>>

\* PythonSweeper.__init__ and setup, up to the call of sweep.
Init ==
  /\ max_batch_size \in MaxBatchSizes
  /\ entrypoint \in Entrypoints
  /\ remove_duplicates \in BOOLEAN
  /\ pc = "parse"
  /\ parsed = <<>>
  /\ batches = <<>>
  /\ chunked_batches = <<>>
  /\ next_chunk = 1
  /\ initial_job_idx = 0
  /\ returns = <<>>
  /\ launches = <<>>
  /\ exception = ""
  /\ result = NoResult

\* An exception leaves sweep(): nothing after the raising statement runs.
Raises(where) ==
  /\ pc' = "raised"
  /\ exception' = where

\* parsed = parser.parse_overrides(arguments)
SweepParse ==
  /\ pc = "parse"
  /\ \/ /\ parsed' \in ParsedOverrides
        /\ pc' = "make_batches"
        /\ UNCHANGED exception
     \/ /\ Raises("parse")
        /\ UNCHANGED parsed
  /\ UNCHANGED <<config, batches, chunked_batches, next_chunk,
                 initial_job_idx, returns, launches, result>>

\* batches = self._make_batches(parsed)
SweepMakeBatches ==
  /\ pc = "make_batches"
  /\ LET python_overrides == make_python_overrides(entrypoint)
     IN IF python_overrides.raised
        THEN /\ Raises("entrypoint")
             /\ UNCHANGED batches
        ELSE /\ batches' = make_batches(parsed, python_overrides.value,
                                        remove_duplicates)
             /\ pc' = "validate"
             /\ UNCHANGED exception
  /\ UNCHANGED <<config, parsed, chunked_batches, next_chunk,
                 initial_job_idx, returns, launches, result>>

\* self.validate_batch_is_legal(batches)
SweepValidate ==
  /\ pc = "validate"
  /\ \/ /\ pc' = "chunk"
        /\ UNCHANGED exception
     \/ Raises("validate")
  /\ UNCHANGED <<config, parsed, batches, chunked_batches, next_chunk,
                 initial_job_idx, returns, launches, result>>

\* chunked_batches = list(self._chunk_batches(batches)); returns = [];
\* initial_job_idx = 0
SweepChunk ==
  /\ pc = "chunk"
  /\ LET chunks == chunk_batches(batches, max_batch_size)
     IN IF chunks.raised
        THEN /\ Raises("chunk")
             /\ UNCHANGED chunked_batches
        ELSE /\ chunked_batches' = chunks.value
             /\ pc' = "launch"
             /\ UNCHANGED exception
  /\ returns' = <<>>
  /\ initial_job_idx' = 0
  /\ next_chunk' = 1
  /\ UNCHANGED <<config, parsed, batches, launches, result>>

\* A loop body that logs a launcher failure and goes on to the next chunk.
SweepLaunchContinue ==
  /\ pc = "launch"
  /\ next_chunk <= Len(chunked_batches)
  /\ LET batch == chunked_batches[next_chunk]
     IN \/ /\ launches' = Append(launches,
                [batch |-> batch, initial_job_idx |-> initial_job_idx,
                 raised |-> FALSE])
           /\ initial_job_idx' = next_job_idx(initial_job_idx, batch)
           /\ returns' = Append(returns, launch_results(batch, initial_job_idx))
        \/ /\ launches' = Append(launches,
                [batch |-> batch, initial_job_idx |-> initial_job_idx,
                 raised |-> TRUE])
           /\ UNCHANGED <<initial_job_idx, returns>>
  /\ next_chunk' = next_chunk + 1
  /\ UNCHANGED <<config, parsed, batches, chunked_batches, result, pc, exception>>

\* One turn of the for loop: results = self.launcher.launch(batch,
\* initial_job_idx=initial_job_idx), which returns or raises.
SweepLaunch ==
  /\ pc = "launch"
  /\ next_chunk <= Len(chunked_batches)
  /\ LET batch == chunked_batches[next_chunk]
     IN \/ /\ launches' = Append(launches,
                [batch |-> batch, initial_job_idx |-> initial_job_idx,
                 raised |-> FALSE])
           /\ initial_job_idx' = next_job_idx(initial_job_idx, batch)
           /\ returns' = Append(returns, launch_results(batch, initial_job_idx))
           /\ next_chunk' = next_chunk + 1
           /\ UNCHANGED <<pc, exception>>
        \/ /\ launches' = Append(launches,
                [batch |-> batch, initial_job_idx |-> initial_job_idx,
                 raised |-> TRUE])
           /\ Raises("launch")
           /\ UNCHANGED <<initial_job_idx, returns, next_chunk>>
  /\ UNCHANGED <<config, parsed, batches, chunked_batches, result>>

\* return returns
SweepReturn ==
  /\ pc = "launch"
  /\ next_chunk > Len(chunked_batches)
  /\ result' = [returned |-> TRUE, value |-> returns]
  /\ pc' = "done"
  /\ UNCHANGED <<config, parsed, batches, chunked_batches, next_chunk,
                 initial_job_idx, returns, launches, exception>>

Next ==
  \/ SweepParse
  \/ SweepMakeBatches
  \/ SweepValidate
  \/ SweepChunk
  \/ SweepLaunch
  \/ SweepReturn

Spec == Init /\ [][Next]_vars

\* ------------------------------------------------------------ properties

\* _make_batches has returned.
Batched ==
  \/ pc \in {"validate", "chunk", "launch", "done"}
  \/ pc = "raised" /\ exception \in {"validate", "chunk", "launch"}

\* _chunk_batches has returned.
Chunked ==
  \/ pc \in {"launch", "done"}
  \/ pc = "raised" /\ exception = "launch"

\* What _make_cli_overrides and _make_python_overrides returned.
CliCombinations == make_cli_overrides(parsed)

PythonCombinations == make_python_overrides(entrypoint).value

RECURSIVE entry_key(_)
\* The key of a rendered "key=value" entry: the text before the first '='.
entry_key(e) ==
  IF e = <<>> \/ Head(e) = "=" THEN <<>> ELSE <<Head(e)>> \o entry_key(Tail(e))

\* The config path an entry or a key targets.
Path(key) == lstrip_plus(key)

RECURSIVE SumLen(_, _)
\* The total size of the first k chunks.
SumLen(chunks, k) ==
  IF k = 0 THEN 0 ELSE SumLen(chunks, k - 1) + Len(chunks[k])

RECURSIVE Prod(_, _)
\* counts[from] * ... * counts[Len(counts)].
Prod(counts, from) ==
  IF from > Len(counts) THEN 1 ELSE counts[from] * Prod(counts, from + 1)

\* The number of choices of each command-line override, in declared order.
AxisCounts == [a \in 1..Len(parsed) |-> Len(override_choices(parsed[a]))]

\* The i-th (from 0) command-line combination, the first axis varying
\* slowest: axis a takes its choice number (i div stride) mod count.
CliCombinationAt(i) ==
  [a \in 1..Len(parsed) |->
     override_choices(parsed[a])
       [((i \div Prod(AxisCounts, a + 1)) % AxisCounts[a]) + 1]]

FirstIndex(s, x) ==
  CHOOSE i \in 1..Len(s) : s[i] = x /\ \A k \in 1..(i - 1) : s[k] # x

\* C1: for every (CLI combination, entrypoint combination) pair and every
\* config path both have a key for, the entries of the merged item that
\* target this path are exactly the CLI's entries for it: the CLI entry is
\* there and none of the entrypoint's is.
C1_CliPrecedence ==
  (Batched /\ ~remove_duplicates) =>
    LET m == Len(PythonCombinations)
    IN \A i \in 1..Len(CliCombinations), j \in 1..m :
         LET c    == CliCombinations[i]
             e    == PythonCombinations[j]
             item == batches[(i - 1) * m + j]
         IN \A a \in 1..Len(c), b \in 1..Len(e) :
              Path(c[a][1]) = Path(e[b][1]) =>
                SelectSeq(item, LAMBDA x : Path(entry_key(x)) = Path(c[a][1]))
                  = render(SelectSeq(c, LAMBDA t : Path(t[1]) = Path(c[a][1])))

\* C2: no merged combination returned by _make_batches holds two entries
\* that target the same config path.
C2_KeyUniqueness ==
  Batched =>
    \A b \in 1..Len(batches) :
      \A p, q \in 1..Len(batches[b]) :
        p # q => Path(entry_key(batches[b][p])) # Path(entry_key(batches[b][q]))

\* C3: with a list of entrypoints configured, _make_batches builds from the
\* cartesian product of what the entrypoints return, each tuple concatenated
\* in list order, the first entrypoint varying slowest.
C3_MultipleEntrypoints ==
  (entrypoint.kind = "list" /\ pc \notin {"parse", "make_batches"}
     /\ exception # "parse") =>
    /\ exception # "entrypoint"
    /\ batches =
         make_batches(parsed,
                      merge_overrides([k \in 1..Len(entrypoint.paths) |->
                                         Methods[entrypoint.paths[k]]]),
                      remove_duplicates)

\* C4: without deduplication _make_batches returns N * m items, N the
\* product of the axes' choice counts and m the number of entrypoint
\* combinations, and item i * m + j is the merge of CLI combination i (first
\* axis slowest) with entrypoint combination j; with no entrypoint m = 1 and
\* the items are the CLI combinations.
C4_RowMajor ==
  (Batched /\ ~remove_duplicates) =>
    LET N == Prod(AxisCounts, 1)
        m == Len(PythonCombinations)
    IN /\ Len(batches) = N * m
       /\ \A i \in 0..(N - 1), j \in 0..(m - 1) :
            batches[i * m + j + 1]
              = render(merge_override_pairs(CliCombinationAt(i),
                                            PythonCombinations[j + 1]))
       /\ entrypoint.kind = "none" =>
            /\ m = 1
            /\ \A i \in 0..(N - 1) : batches[i + 1] = render(CliCombinationAt(i))

C4_Witness ==
  /\ pc = "done"
  /\ ~remove_duplicates
  /\ Len(parsed) = 2
  /\ AxisCounts = <<2, 2>>
  /\ entrypoint.kind = "str"
  /\ Len(PythonCombinations) = 2
  /\ Len(batches) = 8
  /\ batches[3] # batches[5]

\* C5: with remove_duplicates the list _make_batches returns has no two
\* equal items, holds exactly the items of the list returned without it, and
\* keeps them in the order of their first occurrence there (so it is a
\* subsequence of that list).
C5_Deduplication ==
  (Batched /\ remove_duplicates) =>
    LET raw == make_batches(parsed, PythonCombinations, FALSE)
    IN /\ \A p, q \in 1..Len(batches) : p # q => batches[p] # batches[q]
       /\ Range(batches) = Range(raw)
       /\ \A p, q \in 1..Len(batches) :
            p < q => FirstIndex(raw, batches[p]) < FirstIndex(raw, batches[q])

C5_Witness ==
  /\ pc = "done"
  /\ remove_duplicates
  /\ Len(batches) >= 2
  /\ Len(make_batches(parsed, PythonCombinations, FALSE)) > Len(batches)

\* C6: with max_batch_size n > 0 and L batches, _chunk_batches yields
\* ceil(L / n) chunks, each but the last of n items, the last of L mod n
\* items (n when that is 0), and chunk k holds items (k-1)*n+1.. of the list
\* in order.
C6_Chunking ==
  (Chunked /\ ~max_batch_size.none /\ max_batch_size.int > 0) =>
    LET n == max_batch_size.int
        L == Len(batches)
        c == chunked_batches
    IN /\ Len(c) = (L + n - 1) \div n
       /\ \A k \in 1..(Len(c) - 1) : Len(c[k]) = n
       /\ Len(c) > 0 => Len(c[Len(c)]) = (IF L % n = 0 THEN n ELSE L % n)
       /\ \A k \in 1..Len(c) : \A r \in 1..Len(c[k]) :
            c[k][r] = batches[(k - 1) * n + r]
       /\ SumLen(c, Len(c)) = L

C6_Witness ==
  /\ Chunked
  /\ ~max_batch_size.none
  /\ max_batch_size.int > 1
  /\ Len(chunked_batches) >= 2
  /\ Len(batches) % max_batch_size.int # 0

\* C7: the launcher is called chunk by chunk in chunk order, and call i gets
\* as initial_job_idx the total size of the chunks before it.
C7_JobIndexing ==
  /\ Len(launches) <= Len(chunked_batches)
  /\ \A i \in 1..Len(launches) :
       /\ launches[i].batch = chunked_batches[i]
       /\ launches[i].initial_job_idx = SumLen(chunked_batches, i - 1)

C7_Witness ==
  /\ pc = "done"
  /\ Len(launches) >= 3
  /\ Len(launches[1].batch) >= 2
  /\ launches[3].initial_job_idx >= 4

\* C8: when parsing, entrypoint resolution or validation raised, the
\* launcher was never called; a launcher call that raised is the last call;
\* and a sweep that raised returns nothing.
C8_AbortOnFailure ==
  /\ exception \in {"parse", "entrypoint", "validate"} => launches = <<>>
  /\ \A i \in 1..(Len(launches) - 1) : ~launches[i].raised
  /\ (\E i \in 1..Len(launches) : launches[i].raised) =>
       exception = "launch" /\ pc = "raised"
  /\ exception # "" => result = NoResult /\ pc = "raised"

C8_Witness ==
  /\ exception = "launch"
  /\ Len(launches) >= 2
  /\ Len(launches) < Len(chunked_batches)
  /\ returns # <<>>
  /\ result = NoResult

\* C9: with max_batch_size None or -1 the chunker does not raise and yields
\* the whole list as its only chunk, and no chunk for an empty list.
C9_Unbounded ==
  (max_batch_size.none \/ max_batch_size.int = 0 - 1) =>
    /\ exception # "chunk"
    /\ Chunked =>
         chunked_batches = (IF batches = <<>> THEN <<>> ELSE <<batches>>)

C9_Witness ==
  /\ Chunked
  /\ ~max_batch_size.none
  /\ max_batch_size.int = 0 - 1
  /\ Len(batches) >= 2
  /\ Len(chunked_batches) = 1

\* C10: whenever sweep() returns, the chunks the launcher received,
\* concatenated in call order, are the list _make_batches returned, and the
\* returned list has one entry per launcher call.
C10_EndToEnd ==
  pc = "done" =>
    /\ Flatten([i \in 1..Len(launches) |-> launches[i].batch]) = batches
    /\ result.returned
    /\ Len(result.value) = Len(launches)

====
